---- MODULE Spec2Model ----
(***************************************************************************)
(* Argument bots of argubots.py: KialoAgent, ContextualKialoAgent,         *)
(* RAGAgent and AwsomAgent, with the Kialo retrieval engine, the           *)
(* generation client and the LLMAgent / ConstantAgent base classes they    *)
(* are built on.                                                           *)
(*                                                                         *)
(* A text is a sequence of tokens (words and whitespace tokens); a claim   *)
(* of the Kialo corpus is its text, as in the Python code, where claims    *)
(* are str and Kialo.cons is keyed by the claim string.                    *)
(***************************************************************************)
EXTENDS Integers, Sequences, FiniteSets, TLC

VARIABLES
    d,          \* the Dialogue the caller holds: sequence of turns
    kialo,      \* the Kialo database the agents were constructed with
    self,       \* the fields of the agent objects
    pc,         \* position of the current response() call
    cur,        \* the agent whose response() is running
    last_turn,  \* local last_turn (RAGAgent, AwsomAgent)
    query,      \* local previous_turn / weighted_query / explicit_statement
    neighbors,  \* local neighbors / results / related_claims
    neighbor,   \* local neighbor (KialoAgent)
    thought,    \* local private_thought (AwsomAgent)
    calls,      \* the calls this response() made to its collaborators
    result,     \* the value response() returned
    outcome     \* how response() ended

vars == <<d, kialo, self, pc, cur, last_turn, query, neighbors, neighbor,
          thought, calls, result, outcome>>

\* ------------------------------------------------------------------ bounds
MaxTurns == 4

\* ------------------------------------------------------------------ texts
Whitespace == {" ", "\n"}
NoText == <<"<none>">>

\* str.join
RECURSIVE join(_, _)
join(sep, xs) ==
    IF xs = <<>> THEN <<>>
    ELSE IF Len(xs) = 1 THEN xs[1]
    ELSE xs[1] \o <<sep>> \o join(sep, Tail(xs))

\* str.strip
RECURSIVE lstrip(_)
lstrip(t) == IF t # <<>> /\ Head(t) \in Whitespace THEN lstrip(Tail(t)) ELSE t

RECURSIVE rstrip(_)
rstrip(t) ==
    IF t # <<>> /\ t[Len(t)] \in Whitespace THEN rstrip(SubSeq(t, 1, Len(t) - 1)) ELSE t

strip(t) == rstrip(lstrip(t))

\* the slice xs[-k:]
LastK(xs, k) == SubSeq(xs, (IF Len(xs) > k THEN Len(xs) - k + 1 ELSE 1), Len(xs))

Range(s) == {s[i] : i \in 1..Len(s)}

\* ------------------------------------------------------------------ corpus
ClaimA == <<"tax", " ", "good">>
ClaimB == <<"tax", " ", "bad">>
ClaimC == <<"bad", " ", "wrong">>
ClaimD == <<"cats">>
ClaimE == <<"good">>

NoChildren(cs) == [c \in Range(cs) |-> <<>>]

\* no data files matched: nothing was loaded
EmptyKialo == [claims |-> <<>>, roots |-> <<>>, pros |-> <<>>, cons |-> <<>>]

\* A is opposed by B, B is opposed by C; D is a second root without children
ChainKialo ==
    LET cs == <<ClaimA, ClaimB, ClaimC, ClaimD, ClaimE>>
    IN [claims |-> cs,
        roots  |-> <<ClaimA, ClaimD>>,
        pros   |-> [NoChildren(cs) EXCEPT ![ClaimA] = <<ClaimE>>],
        cons   |-> [NoChildren(cs) EXCEPT ![ClaimA] = <<ClaimB>>, ![ClaimB] = <<ClaimC>>]]

\* claims, but none of them has a con argument
ProsKialo ==
    LET cs == <<ClaimA, ClaimD, ClaimE>>
    IN [claims |-> cs,
        roots  |-> <<ClaimA, ClaimD>>,
        pros   |-> [NoChildren(cs) EXCEPT ![ClaimA] = <<ClaimE>>],
        cons   |-> NoChildren(cs)]

\* one root with two con arguments
WideKialo ==
    LET cs == <<ClaimD, ClaimB, ClaimC>>
    IN [claims |-> cs,
        roots  |-> <<ClaimD>>,
        pros   |-> NoChildren(cs),
        cons   |-> [NoChildren(cs) EXCEPT ![ClaimD] = <<ClaimB, ClaimC>>]]

Corpora == {EmptyKialo, ChainKialo, ProsKialo, WideKialo}

\* ---------------------------------------------------- Kialo (retrieval engine)
Words(t) == Range(t) \ Whitespace

\* similarity of a query to a claim: lexical overlap
Score(q, c) == Cardinality(Words(q) \cap Words(c))

\* positions of k.claims ranked by descending similarity, ties by creation order
RECURSIVE Ranked(_, _, _)
Ranked(k, q, left) ==
    IF left = {} THEN <<>>
    ELSE LET best == CHOOSE i \in left :
                        \A j \in left :
                            \/ Score(q, k.claims[i]) > Score(q, k.claims[j])
                            \/ Score(q, k.claims[i]) = Score(q, k.claims[j]) /\ i <= j
         IN <<k.claims[best]>> \o Ranked(k, q, left \ {best})

FirstK(xs, n) == SubSeq(xs, 1, IF Len(xs) < n THEN Len(xs) ELSE n)

nearest(k, q, n) == FirstK(Ranked(k, q, 1..Len(k.claims)), n)

RECURSIVE Filter(_, _, _)
Filter(k, kind, xs) ==
    IF xs = <<>> THEN <<>>
    ELSE IF kind = "has_cons" => k.cons[Head(xs)] # <<>>
         THEN <<Head(xs)>> \o Filter(k, kind, Tail(xs))
         ELSE Filter(k, kind, Tail(xs))

OverFetch(n) == 2 * n

closest_claims(k, q, n, kind) == FirstK(Filter(k, kind, nearest(k, q, OverFetch(n))), n)

Children(k, c) == k.pros[c] \o k.cons[c]

\* the root-to-leaf walks that start at claim c
RECURSIVE ChainsFrom(_, _)
ChainsFrom(k, c) ==
    IF Children(k, c) = <<>> THEN {<<c>>}
    ELSE UNION {{<<c>> \o p : p \in ChainsFrom(k, ch)} : ch \in Range(Children(k, c))}

\* the walks random_chain() can return
random_chain(k) == UNION {ChainsFrom(k, r) : r \in Range(k.roots)}

\* ------------------------------------------------------- generation client
GenOutputs == {<<"ok">>, <<" ", "sure", "\n">>}
Failure == <<"<raise>">>

\* what client.chat.completions.create can do for one request
Completions == GenOutputs \cup {Failure}

Message(role, content) == [role |-> role, content |-> content]

CreateCall(messages, out) ==
    [op |-> "create", messages |-> messages, query |-> <<>>, n |-> 0,
     kind |-> "", out |-> <<out>>]

ClosestCall(q, n, kind, out) ==
    [op |-> "closest_claims", messages |-> <<>>, query |-> q, n |-> n,
     kind |-> kind, out |-> out]

ChainCall(out) ==
    [op |-> "random_chain", messages |-> <<>>, query |-> <<>>, n |-> 0,
     kind |-> "", out |-> out]

\* ------------------------------------------------------------------ agents
Turn(speaker, content) == [speaker |-> speaker, content |-> content]

\* what a human says, and an earlier reply of Alice
TurnTexts == {<<>>, <<"tax">>, <<"cats", " ", "bad">>}
Turns == {Turn("Human", t) : t \in TurnTexts} \cup {Turn("Alice", <<"why", " ", "tax">>)}

Agents == {"Airhead", "Alice", "Akiko", "Akiki", "Aragorn", "Awsom"}

AgentFields ==
    [a \in Agents |->
        [name  |-> a,
         class |-> CASE a = "Airhead" -> "ConstantAgent"
                     [] a = "Alice"   -> "LLMAgent"
                     [] a = "Akiko"   -> "KialoAgent"
                     [] a = "Akiki"   -> "ContextualKialoAgent"
                     [] a = "Aragorn" -> "RAGAgent"
                     [] a = "Awsom"   -> "AwsomAgent",
         model |-> IF a \in {"Alice", "Aragorn", "Awsom"} THEN "default_model" ELSE ""]]

Init ==
    /\ d = <<>>
    /\ kialo \in Corpora
    /\ self = AgentFields
    /\ pc = "idle"
    /\ cur = ""
    /\ last_turn = <<>>
    /\ query = <<>>
    /\ neighbors = <<>>
    /\ neighbor = NoText
    /\ thought = NoText
    /\ calls = <<>>
    /\ result = NoText
    /\ outcome = "none"

Locals == <<last_turn, query, neighbors, neighbor, thought>>
Frame == <<d, kialo, self>>

\* the caller (the dialogue loop) adds a turn to its Dialogue
AddTurn ==
    /\ pc = "idle"
    /\ Len(d) < MaxTurns
    /\ \E t \in Turns : d' = Append(d, t)
    /\ UNCHANGED <<kialo, self, pc, cur, calls, result, outcome>>
    /\ UNCHANGED Locals

\* the caller takes what response() produced
Return ==
    /\ pc = "done"
    /\ pc' = "idle"
    /\ cur' = ""
    /\ last_turn' = <<>>
    /\ query' = <<>>
    /\ neighbors' = <<>>
    /\ neighbor' = NoText
    /\ thought' = NoText
    /\ calls' = <<>>
    /\ result' = NoText
    /\ outcome' = "none"
    /\ UNCHANGED Frame

\* random.choice(xs): the values it can return (none: it raises IndexError)
random_choice(xs) == Range(xs)

Finish(res, how) ==
    /\ result' = res
    /\ outcome' = how
    /\ pc' = "done"

\* ------------------------------------------------------------ ConstantAgent
AirheadText == <<"I know right???">>

ConstantAgent_response ==
    /\ pc = "idle"
    /\ cur' = "Airhead"
    /\ calls' = <<>>
    /\ Finish(AirheadText, "text")
    /\ UNCHANGED Locals
    /\ UNCHANGED Frame

\* ----------------------------------------------------------------- LLMAgent
AliceSystem == <<"You are an intelligent bot who wants to broaden your user's mind.">>

LLMMessages(name, system, dd) ==
    <<Message("system", system)>> \o
    [i \in 1..Len(dd) |->
        Message(IF dd[i].speaker = name THEN "assistant" ELSE "user", dd[i].content)]

LLMAgent_response ==
    /\ pc = "idle"
    /\ cur' = "Alice"
    /\ \E out \in Completions :
          /\ calls' = <<CreateCall(LLMMessages("Alice", AliceSystem, d), out)>>
          /\ IF out = Failure
             THEN Finish(NoText, "GenerationError")
             ELSE Finish(out, "text")
    /\ UNCHANGED Locals
    /\ UNCHANGED Frame

\* --------------------------------------------------------------- KialoAgent
TopN == 3

\* random_chain()[0]
OpeningClaim_last(chain) == chain[Len(chain)]
OpeningClaim(chain) == chain[1]

\* d[-1]['content']
previous_turn_first(dd) == dd[1].content
previous_turn(dd) == dd[Len(dd)].content

\* the sequence the response is drawn from: self.kialo.cons[neighbor]
ConArguments_self(k, nb) == <<nb>>
ConArguments(k, nb) == k.cons[nb]

\* assert neighbors, "No claims to choose from; ..."
NoNeighbors_default == [result |-> <<"I have nothing to say.">>, outcome |-> "text"]
NoNeighbors == [result |-> NoText, outcome |-> "AssertionError"]

KialoAgent_response ==
    /\ pc = "idle"
    /\ cur' = "Akiko"
    /\ UNCHANGED <<last_turn, thought>>
    /\ UNCHANGED Frame
    /\ IF Len(d) = 0
       THEN /\ UNCHANGED <<query, neighbors, neighbor>>
            /\ IF random_chain(kialo) = {}
               THEN /\ calls' = <<ChainCall(<<>>)>>
                    /\ Finish(NoText, "IndexError")
               ELSE \E chain \in random_chain(kialo) :
                       /\ calls' = <<ChainCall(chain)>>
                       /\ Finish(OpeningClaim(chain), "text")
       ELSE LET q  == previous_turn(d)
                ns == closest_claims(kialo, q, TopN, "has_cons")
            IN /\ query' = q
               /\ neighbors' = ns
               /\ calls' = <<ClosestCall(q, TopN, "has_cons", ns)>>
               /\ IF ns = <<>>
                  THEN /\ neighbor' = NoText
                       /\ Finish(NoNeighbors.result, NoNeighbors.outcome)
                  ELSE \E nb \in random_choice(ns) :
                          /\ neighbor' = nb
                          /\ IF random_choice(ConArguments(kialo, nb)) = {}
                             THEN Finish(NoText, "IndexError")
                             ELSE \E claim \in random_choice(ConArguments(kialo, nb)) :
                                     Finish(claim, "text")

\* ----------------------------------------------------- ContextualKialoAgent
Window == 3
Fallback == <<"I'm sorry, I couldn't find a relevant response.">>

history(dd) == [i \in 1..Len(dd) |-> dd[i].content]

weighted_query_reversed(dd) ==
    LET w == LastK(history(dd), Window)
    IN join(" ", [i \in 1..Len(w) |-> w[Len(w) + 1 - i]])
weighted_query(dd) == join(" ", LastK(history(dd), Window))

\* if results: random.choice(results) else: the apology
ContextualReply_always(results) ==
    IF Len(results) >= 2 THEN random_choice(results) ELSE {Fallback}
ContextualReply(results) ==
    IF results # <<>> THEN random_choice(results) ELSE {Fallback}

ContextualKialoAgent_response_popping ==
    /\ pc = "idle"
    /\ cur' = "Akiki"
    /\ UNCHANGED <<last_turn, thought, neighbor, kialo, self>>
    /\ d' = SubSeq(d, 1, Len(d) - 1)
    /\ LET q  == weighted_query(d)
           rs == closest_claims(kialo, q, TopN, "has_cons")
       IN /\ query' = q
          /\ neighbors' = rs
          /\ calls' = <<ClosestCall(q, TopN, "has_cons", rs)>>
          /\ \E reply \in ContextualReply(rs) : Finish(reply, "text")
ContextualKialoAgent_response ==
    /\ pc = "idle"
    /\ cur' = "Akiki"
    /\ UNCHANGED <<last_turn, thought, neighbor>>
    /\ UNCHANGED Frame
    /\ LET q  == weighted_query(d)
           rs == closest_claims(kialo, q, TopN, "has_cons")
       IN /\ query' = q
          /\ neighbors' = rs
          /\ calls' = <<ClosestCall(q, TopN, "has_cons", rs)>>
          /\ \E reply \in ContextualReply(rs) : Finish(reply, "text")

\* ----------------------------------------------------------------- shared
\* d[-1]["content"] if d else ""
LastTurn(dd) == IF dd # <<>> THEN dd[Len(dd)].content ELSE <<>>

\* client.chat.completions.create is called outside any try block
Raises_swallowed(out) == FALSE
Raises(out) == out = Failure

\* ----------------------------------------------------------------- RAGAgent
ParaphrasePrompt ==
    <<"Paraphrase the following statement to make it more explicit and detailed:">>
GroundingPrompt ==
    <<"Generate a response based on the user's statement and the following related claims:", "\n">>

RAGQueryMessages(lt) ==
    <<Message("system", ParaphrasePrompt), Message("user", lt)>>

RAGFinalMessages(related_claims, lt) ==
    <<Message("system", GroundingPrompt \o join("\n", related_claims)),
      Message("user", lt)>>

\* Step 1: Query Formation
RAG_QueryFormation ==
    /\ pc = "idle"
    /\ cur' = "Aragorn"
    /\ last_turn' = LastTurn(d)
    /\ UNCHANGED <<neighbors, neighbor, thought>>
    /\ UNCHANGED Frame
    /\ \E out \in Completions :
          /\ calls' = <<CreateCall(RAGQueryMessages(LastTurn(d)), out)>>
          /\ IF Raises(out)
             THEN /\ query' = query
                  /\ Finish(NoText, "GenerationError")
             ELSE /\ query' = strip(out)
                  /\ pc' = "rag_retrieval"
                  /\ UNCHANGED <<result, outcome>>

\* Step 2: Retrieval
RAG_Retrieval_last_turn ==
    /\ pc = "rag_retrieval"
    /\ LET rs == closest_claims(kialo, last_turn, TopN, "has_cons")
       IN /\ neighbors' = rs
          /\ calls' = Append(calls, ClosestCall(last_turn, TopN, "has_cons", rs))
    /\ pc' = "rag_generation"
    /\ UNCHANGED <<cur, last_turn, query, neighbor, thought, result, outcome>>
    /\ UNCHANGED Frame
RAG_Retrieval ==
    /\ pc = "rag_retrieval"
    /\ LET rs == closest_claims(kialo, query, TopN, "has_cons")
       IN /\ neighbors' = rs
          /\ calls' = Append(calls, ClosestCall(query, TopN, "has_cons", rs))
    /\ pc' = "rag_generation"
    /\ UNCHANGED <<cur, last_turn, query, neighbor, thought, result, outcome>>
    /\ UNCHANGED Frame

\* Step 3: Retrieval-Augmented Generation
RAG_Generation ==
    /\ pc = "rag_generation"
    /\ UNCHANGED <<cur, last_turn, query, neighbors, neighbor, thought>>
    /\ UNCHANGED Frame
    /\ \E out \in Completions :
          /\ calls' = Append(calls, CreateCall(RAGFinalMessages(neighbors, last_turn), out))
          /\ IF Raises(out)
             THEN Finish(NoText, "GenerationError")
             ELSE Finish(strip(out), "text")

\* --------------------------------------------------------------- AwsomAgent
AnalystSystem ==
    <<"You are a helpful assistant that analyzes dialogue to infer intent and emotional tone.">>
AnalyzePrefix ==
    <<"Analyze the following human statement and summarize their intent, tone, and possible motivations: ">>
ResponderSystem ==
    <<"You are an assistant that responds thoughtfully to human dialogue based on analyzed context.">>
UsingPrefix == <<"Using the following analysis: ">>
UsingInfix ==
    <<", generate a helpful and contextually appropriate response to the statement: ">>

thought_prompt(lt) ==
    <<Message("system", AnalystSystem), Message("user", AnalyzePrefix \o lt)>>

response_prompt(private_thought, lt) ==
    <<Message("system", ResponderSystem),
      Message("user", UsingPrefix \o private_thought \o UsingInfix \o lt)>>

\* Step 2: Chain of Thought - Private Analysis
Awsom_PrivateAnalysis ==
    /\ pc = "idle"
    /\ cur' = "Awsom"
    /\ last_turn' = LastTurn(d)
    /\ UNCHANGED <<query, neighbors, neighbor>>
    /\ UNCHANGED Frame
    /\ \E out \in Completions :
          /\ calls' = <<CreateCall(thought_prompt(LastTurn(d)), out)>>
          /\ IF Raises(out)
             THEN /\ thought' = thought
                  /\ Finish(NoText, "GenerationError")
             ELSE /\ thought' = strip(out)
                  /\ pc' = "awsom_public"
                  /\ UNCHANGED <<result, outcome>>

\* Step 3: Generate Public Response with Private Thought Integration
Awsom_PublicResponse_leaking ==
    /\ pc = "awsom_public"
    /\ UNCHANGED <<cur, last_turn, query, neighbors, neighbor, thought>>
    /\ UNCHANGED Frame
    /\ \E out \in Completions :
          /\ calls' = Append(calls, CreateCall(response_prompt(thought, last_turn), out))
          /\ IF Raises(out)
             THEN Finish(NoText, "GenerationError")
             ELSE Finish(thought, "text")
Awsom_PublicResponse ==
    /\ pc = "awsom_public"
    /\ UNCHANGED <<cur, last_turn, query, neighbors, neighbor, thought>>
    /\ UNCHANGED Frame
    /\ \E out \in Completions :
          /\ calls' = Append(calls, CreateCall(response_prompt(thought, last_turn), out))
          /\ IF Raises(out)
             THEN Finish(NoText, "GenerationError")
             ELSE Finish(strip(out), "text")

Next ==
    \/ AddTurn
    \/ Return
    \/ ConstantAgent_response
    \/ LLMAgent_response
    \/ KialoAgent_response
    \/ ContextualKialoAgent_response
    \/ RAG_QueryFormation
    \/ RAG_Retrieval
    \/ RAG_Generation
    \/ Awsom_PrivateAnalysis
    \/ Awsom_PublicResponse

Spec == Init /\ [][Next]_vars

\* ------------------------------------------------------------- properties
Returned(a) == pc = "done" /\ cur = a
ConsOfAny(cs) == UNION {Range(kialo.cons[c]) : c \in Range(cs)}
IsSuffix(t, u) == Len(t) <= Len(u) /\ SubSeq(u, Len(u) - Len(t) + 1, Len(u)) = t

\* C1 as stated: on a non-empty transcript with at least one candidate, the
\* query of the single closest_claims call is the text of the most recent turn
\* with n = 3 and the has_cons filter, and the returned text is a con argument
\* of a returned candidate and is never itself one of the candidates.
C1_ReplyIsNeverACandidate ==
    (Returned("Akiko") /\ Len(d) > 0 /\ neighbors # <<>>) =>
        /\ calls = <<ClosestCall(d[Len(d)].content, 3, "has_cons", neighbors)>>
        /\ outcome = "text"
        /\ result \in ConsOfAny(neighbors)
        /\ result \notin Range(neighbors)

\* C1 amended: on a non-empty transcript with at least one candidate, the
\* query of the single closest_claims call is the text of the most recent turn
\* with n = 3 and the has_cons filter; every candidate has a con argument, so
\* the choice is never over an empty sequence; the returned text is a con
\* argument of the chosen candidate and is never the chosen candidate itself
\* (it may be another candidate that opposes the chosen one).
C1_ReplyIsConOfChosenCandidate ==
    (Returned("Akiko") /\ Len(d) > 0 /\ neighbors # <<>>) =>
        /\ calls = <<ClosestCall(d[Len(d)].content, 3, "has_cons", neighbors)>>
        /\ \A c \in Range(neighbors) : kialo.cons[c] # <<>>
        /\ outcome = "text"
        /\ neighbor \in Range(neighbors)
        /\ result \in Range(kialo.cons[neighbor])
        /\ result # neighbor

\* the reply is a con argument of the chosen candidate and also a candidate
C1_Witness ==
    /\ Returned("Akiko")
    /\ Len(d) > 0
    /\ outcome = "text"
    /\ result \in Range(kialo.cons[neighbor])
    /\ result \in Range(neighbors)

\* C2: on an empty transcript KialoAgent makes no closest_claims call, the text
\* it returns is the first claim of the random_chain() walk and a root of the
\* corpus, and every root of the corpus is a possible result.
C2_OpeningIsAnyRoot ==
    /\ (Returned("Akiko") /\ d = <<>>) =>
          /\ \A i \in 1..Len(calls) : calls[i].op # "closest_claims"
          /\ kialo.roots # <<>> => outcome = "text"
          /\ outcome = "text" =>
                /\ Len(calls) = 1
                /\ calls[1].op = "random_chain"
                /\ result = calls[1].out[1]
                /\ result \in Range(kialo.roots)
    /\ (pc = "idle" /\ d = <<>>) =>
          \A r \in Range(kialo.roots) : ENABLED (KialoAgent_response /\ result' = r)

\* the second root of the corpus was returned as the opening claim
C2_Witness ==
    /\ Returned("Akiko")
    /\ d = <<>>
    /\ Len(kialo.roots) = 2
    /\ outcome = "text"
    /\ result = kialo.roots[2]

\* C3: ContextualKialoAgent never fails, and it returns the fixed apology
\* exactly when closest_claims returned no candidate.
C3_FallbackIffNoCandidates ==
    Returned("Akiki") =>
        /\ outcome = "text"
        /\ Len(calls) = 1
        /\ calls[1].op = "closest_claims"
        /\ (calls[1].out = <<>>) <=>
              (result = <<"I'm sorry, I couldn't find a relevant response.">>)

\* the apology was returned for a non-empty transcript over a non-empty corpus
C3_Witness ==
    /\ Returned("Akiki")
    /\ d # <<>>
    /\ kialo.claims # <<>>
    /\ calls[1].out = <<>>
    /\ result = <<"I'm sorry, I couldn't find a relevant response.">>

\* C4: a RAGAgent call that returns text made exactly three calls, in this
\* order: a generation call paraphrasing the last turn, a closest_claims call
\* (n = 3, has_cons) whose query is the stripped result of the first, and a
\* generation call whose system message ends with the retrieved claims and
\* whose user message is the original last turn; the value returned is the
\* stripped result of the third.  A call is logged only when the previous one
\* has completed.
C4_ThreeStepsInOrder ==
    /\ pc = "rag_retrieval" => Len(calls) = 1 /\ calls[1].op = "create"
    /\ pc = "rag_generation" => Len(calls) = 2 /\ calls[2].op = "closest_claims"
    /\ (Returned("Aragorn") /\ outcome = "text") =>
          LET lt == IF Len(d) = 0 THEN <<>> ELSE d[Len(d)].content
          IN /\ Len(calls) = 3
             /\ calls[1].op = "create"
             /\ calls[1].out[1] \in GenOutputs
             /\ calls[1].messages[1].role = "system"
             /\ calls[1].messages[1].content = ParaphrasePrompt
             /\ calls[1].messages[2] = Message("user", lt)
             /\ calls[2].op = "closest_claims"
             /\ calls[2].query = strip(calls[1].out[1])
             /\ calls[2].n = 3
             /\ calls[2].kind = "has_cons"
             /\ calls[3].op = "create"
             /\ calls[3].messages[1].role = "system"
             /\ IsSuffix(<<"\n">> \o join("\n", calls[2].out), calls[3].messages[1].content)
             /\ calls[3].messages[2] = Message("user", lt)
             /\ result = strip(calls[3].out[1])

\* a grounded reply: claims were retrieved and the last turn is not empty
C4_Witness ==
    /\ Returned("Aragorn")
    /\ outcome = "text"
    /\ Len(calls) = 3
    /\ Len(calls[2].out) >= 2
    /\ Len(d) > 0
    /\ d[Len(d)].content # <<>>

\* C5: when a generation call fails inside LLMAgent, RAGAgent or AwsomAgent,
\* the call ends with the error and no text, the failed call is the last call
\* made (no retry, no later stage), and a first-stage failure leaves exactly
\* one call.
FailedAt(i) == calls[i].op = "create" /\ calls[i].out = <<Failure>>

C5_FailureSurfaces ==
    /\ \A i \in 1..Len(calls) : FailedAt(i) => (pc = "done" /\ i = Len(calls))
    /\ (pc = "done" /\ cur \in {"Alice", "Aragorn", "Awsom"}) =>
          /\ (\E i \in 1..Len(calls) : FailedAt(i)) <=> outcome = "GenerationError"
          /\ outcome \in {"text", "GenerationError"}
          /\ outcome = "GenerationError" => result = NoText
          /\ outcome = "text" => result # NoText /\ result # Failure

\* the paraphrase stage of RAGAgent failed
C5_Witness ==
    /\ Returned("Aragorn")
    /\ outcome = "GenerationError"
    /\ Len(calls) = 1
    /\ FailedAt(1)

\* C6: an AwsomAgent call that returns text made exactly two generation calls
\* and no retrieval; the stripped result of the first appears in the user
\* message of the second and nowhere else: the value returned is the stripped
\* result of the second call, and no turn of the transcript holds the analysis.
C6_PrivateThoughtStaysPrivate ==
    (Returned("Awsom") /\ outcome = "text") =>
        LET lt == IF Len(d) = 0 THEN <<>> ELSE d[Len(d)].content
        IN /\ Len(calls) = 2
           /\ calls[1].op = "create"
           /\ calls[2].op = "create"
           /\ thought = strip(calls[1].out[1])
           /\ calls[2].messages[2].content =
                 UsingPrefix \o strip(calls[1].out[1]) \o UsingInfix \o lt
           /\ result = strip(calls[2].out[1])
           /\ \A i \in 1..Len(d) : d[i].content # thought

\* the two generation calls produced different texts
C6_Witness ==
    /\ Returned("Awsom")
    /\ outcome = "text"
    /\ Len(calls) = 2
    /\ strip(calls[1].out[1]) # strip(calls[2].out[1])
    /\ Len(d) > 0

\* C7: no step of a response() call, whether it ends with text or with an
\* error, changes the transcript, the Kialo database or the agents' fields.
C7_ResponseLeavesFrameUnchanged ==
    [][pc' # "idle" => (d' = d /\ kialo' = kialo /\ self' = self)]_vars

\* a call on a transcript of several turns has ended
C7_Witness ==
    /\ Returned("Akiki")
    /\ Len(d) >= 2
    /\ outcome = "text"

\* C8 as stated: when retrieval returns at least one candidate,
\* ContextualKialoAgent replies with a con argument of one of the candidates.
C8_ContextualReplyIsConArgument ==
    (Returned("Akiki") /\ neighbors # <<>>) => result \in ConsOfAny(neighbors)

\* C9: the query of ContextualKialoAgent is the texts of the last min(3, L)
\* turns, oldest first, joined by single spaces; for an empty transcript it is
\* the empty string, and closest_claims is still the one call made.
C9_WindowedQuery ==
    Returned("Akiki") =>
        LET L == Len(d)
            expected ==
                CASE L = 0 -> <<>>
                  [] L = 1 -> d[1].content
                  [] L = 2 -> d[1].content \o <<" ">> \o d[2].content
                  [] OTHER -> d[L - 2].content \o <<" ">> \o d[L - 1].content
                                 \o <<" ">> \o d[L].content
        IN /\ query = expected
           /\ Len(calls) = 1
           /\ calls[1].op = "closest_claims"
           /\ calls[1].query = expected
           /\ calls[1].n = 3
           /\ calls[1].kind = "has_cons"

\* a transcript longer than the window, whose window holds different texts
C9_Witness ==
    /\ Returned("Akiki")
    /\ Len(d) >= 4
    /\ d[Len(d)].content # d[Len(d) - 2].content
    /\ d[1].content # d[Len(d) - 2].content

\* C10: on a non-empty transcript, when closest_claims returns no candidate,
\* KialoAgent ends with the assertion error: no text, no fallback reply, and no
\* candidate or con argument was chosen.
C10_NoCandidatesAsserts ==
    (Returned("Akiko") /\ Len(d) > 0 /\ calls[1].out = <<>>) =>
        /\ outcome = "AssertionError"
        /\ result = NoText
        /\ neighbor = NoText
        /\ Len(calls) = 1

\* the assertion failed over a corpus that has claims but no con arguments
C10_Witness ==
    /\ Returned("Akiko")
    /\ Len(d) > 0
    /\ kialo.claims # <<>>
    /\ neighbors = <<>>
    /\ outcome = "AssertionError"
====
